---- MODULE Spec2Model ----
(***************************************************************************)
(* A model of esak's Session (src/esak/session.py): the request / cache /  *)
(* validation pipeline behind every public accessor.                       *)
(*                                                                         *)
(* A Python str is a sequence of one-character strings, so that sorting,   *)
(* str() and URL-encoding are computed character by character; the cache   *)
(* key and the URL are the flattened text.  A JSON object is a record      *)
(* whose DOMAIN holds exactly the fields that are present.                 *)
(***************************************************************************)
EXTENDS Integers, Sequences, FiniteSets, TLC

\* ------------------------------------------------------------------ bounds
\* Accessor calls made on the one Session.
MaxCalls == 2
\* Wall-clock instants datetime.now() may return: 1..MaxTime.
MaxTime == 2
\* Entries in a caller-supplied params mapping.
MaxParams == 2

\* ------------------------------------------------------- Python strings
\* The characters the model uses, in ascending code-point order.
Alphabet ==
    << " ", "%", "&", "(", ")", "+", "-", "/", "0", "1", "2", "3", "4", "5",
       "6", "7", "8", "9", ":", "=", "?", "B", "a", "b", "c", "d", "e", "h",
       "i", "k", "l", "m", "o", "p", "r", "s", "t", "u", "v", "y" >>

Ord(c) == CHOOSE i \in DOMAIN Alphabet : Alphabet[i] = c

\* s < t for two Python strs: lexicographic on code points.
RECURSIVE StrLess(_, _)
StrLess(s, t) ==
    IF t = << >> THEN FALSE
    ELSE IF s = << >> THEN TRUE
    ELSE IF Ord(Head(s)) # Ord(Head(t)) THEN Ord(Head(s)) < Ord(Head(t))
    ELSE StrLess(Tail(s), Tail(t))

\* The text of a str, as one TLA+ string.
RECURSIVE Flat(_)
Flat(s) == IF s = << >> THEN "" ELSE Head(s) \o Flat(Tail(s))

Digit(d) == << Alphabet[Ord("0") + d] >>

\* str(n) for an int n.
RECURSIVE NatStr(_)
NatStr(n) == IF n < 10 THEN Digit(n) ELSE NatStr(n \div 10) \o Digit(n % 10)

IntStr(n) == IF n < 0 THEN << "-" >> \o NatStr(0 - n) ELSE NatStr(n)

\* Python values a caller may put in params: an int or a str.
PyInt(n) == [py |-> "int", n |-> n, s |-> << >>]
PyStr(s) == [py |-> "str", n |-> 0, s |-> s]

\* str(v)
Str(v) == IF v.py = "int" THEN IntStr(v.n) ELSE v.s

\* urllib.parse.quote_plus on one character: unreserved characters stay,
\* a space becomes "+", anything else is percent-encoded.
Unreserved ==
    { "-", "0", "1", "2", "3", "4", "5", "6", "7", "8", "9", "B", "a", "b",
      "c", "d", "e", "h", "i", "k", "l", "m", "o", "p", "r", "s", "t", "u",
      "v", "y" }

PercentCode(c) ==
    CASE c = "%" -> << "%", "2", "5" >>
      [] c = "&" -> << "%", "2", "6" >>
      [] c = "(" -> << "%", "2", "8" >>
      [] c = ")" -> << "%", "2", "9" >>
      [] c = "+" -> << "%", "2", "B" >>
      [] c = "/" -> << "%", "2", "F" >>
      [] c = ":" -> << "%", "3", "A" >>
      [] c = "=" -> << "%", "3", "D" >>
      [] c = "?" -> << "%", "3", "F" >>

\* A quoting that lets "+" through as it is.
QuoteCharKeepingPlus(c) ==
    IF c \in Unreserved \cup { "+" } THEN << c >>
    ELSE IF c = " " THEN << "+" >>
    ELSE PercentCode(c)

QuoteChar(c) ==
    IF c \in Unreserved THEN << c >>
    ELSE IF c = " " THEN << "+" >>
    ELSE PercentCode(c)

RECURSIVE QuotePlus(_)
QuotePlus(s) == IF s = << >> THEN << >> ELSE QuoteChar(Head(s)) \o QuotePlus(Tail(s))

\* urlencode(items): quote_plus(str(k)) "=" quote_plus(str(v)), joined by "&".
RECURSIVE UrlEncode(_)
UrlEncode(items) ==
    IF items = << >> THEN << >>
    ELSE QuotePlus(Head(items).k) \o << "=" >> \o QuotePlus(Str(Head(items).v))
         \o (IF Tail(items) = << >> THEN << >> ELSE << "&" >> \o UrlEncode(Tail(items)))

\* -------------------------------------------------------------- mappings
\* A dict is the sequence of its items [k, v] in insertion order, keys distinct.
Keys(d) == { d[i].k : i \in DOMAIN d }

Items(d) == { d[i] : i \in DOMAIN d }

HasKey(d, k) == k \in Keys(d)

\* An assignment that adds an entry even when the name is already there.
AppendItem(d, k, v) == Append(d, [k |-> k, v |-> v])

\* d[k] = v : overwrite in place, or append as the newest entry.
SetItem(d, k, v) ==
    IF HasKey(d, k)
    THEN [i \in DOMAIN d |-> IF d[i].k = k THEN [k |-> k, v |-> v] ELSE d[i]]
    ELSE Append(d, [k |-> k, v |-> v])

\* sorted(items, key=lambda t: t[0]) : insertion of each item in key order.
RECURSIVE InsertByKey(_, _)
InsertByKey(sorted, item) ==
    IF sorted = << >> THEN << item >>
    ELSE IF StrLess(item.k, Head(sorted).k) THEN << item >> \o sorted
    ELSE << Head(sorted) >> \o InsertByKey(Tail(sorted), item)

\* The items left in insertion order.
InsertionOrder(d) == d

RECURSIVE SortedByKey(_)
SortedByKey(d) ==
    IF d = << >> THEN << >>
    ELSE InsertByKey(SortedByKey(SubSeq(d, 1, Len(d) - 1)), d[Len(d)])

\* ------------------------------------------------------------- options
\* Python's None and a present value, as sequences of length 0 and 1.
None == << >>

Some(x) == << x >>

\* ---------------------------------------------------------- the Session
\* Session.__init__: the credentials and the endpoint URL template.
PublicKey == << "p", "u", "b" >>

PrivateKey == << "k", "e", "y" >>

ApiUrl == "http://gateway.marvel.com:80/v1/public/"

\* "/".join(str(e) for e in endpoint)
RECURSIVE JoinSlash(_)
JoinSlash(endpoint) ==
    IF endpoint = << >> THEN << >>
    ELSE Str(Head(endpoint))
         \o (IF Tail(endpoint) = << >> THEN << >> ELSE << "/" >> \o JoinSlash(Tail(endpoint)))

\* self.api_url.format("/".join(str(e) for e in endpoint))
FormatUrl(endpoint) == ApiUrl \o Flat(JoinSlash(endpoint))

\* Session._create_cached_params
CreateCachedParams(params) ==
    IF params # << >>
    THEN << "?" >> \o UrlEncode(SortedByKey(params))
    ELSE << >>

\* cache_key = f"{url}{cache_params}"
CacheKey(endpoint, params) == FormatUrl(endpoint) \o Flat(CreateCachedParams(params))

\* hashlib.md5: the digest of a byte string, kept symbolic (distinct inputs
\* give distinct digests); hexdigest() renders it.
Md5Hex(bytes) == << "m", "d", "5", "(" >> \o bytes \o << ")" >>

\* A digest taken over the keys first and the timestamp last.
HashKeysFirst(now_string) == Md5Hex(PrivateKey \o PublicKey \o now_string)

\* Session._create_auth_hash
CreateAuthHash(now_string) == Md5Hex(now_string \o PrivateKey \o PublicKey)

\* datetime.now().strftime("%Y-%m-%d%H:%M:%S") at instant t
Strftime(t) ==
    << "2", "0", "2", "4", "-", "0", "1", "-", "0", "1",
       "0", "0", ":", "0", "0", ":", "0" >> \o Digit(t)

HashName == << "h", "a", "s", "h" >>

ApikeyName == << "a", "p", "i", "k", "e", "y" >>

TsName == << "t", "s" >>

AuthNames == { HashName, ApikeyName, TsName }

\* Session._update_params, with datetime.now() = t
UpdateParams(params, t) ==
    LET now_string == Strftime(t)
        p1 == SetItem(params, HashName, PyStr(CreateAuthHash(now_string)))
        p2 == SetItem(p1, ApikeyName, PyStr(PublicKey))
    IN  SetItem(p2, TsName, PyStr(now_string))

\* The private_key of a second Session, which has the same public_key.
TwinPrivateKey == << "o", "d", "d" >>

\* Session._update_params of the second Session, with datetime.now() = t:
\* its hash is taken over its own private_key.
TwinUpdateParams(params, t) ==
    LET now_string == Strftime(t)
        p1 == SetItem(params, HashName,
                      PyStr(Md5Hex(now_string \o TwinPrivateKey \o PublicKey)))
        p2 == SetItem(p1, ApikeyName, PyStr(PublicKey))
    IN  SetItem(p2, TsName, PyStr(now_string))

\* ------------------------------------------------------- the environment
\* Param names and values callers pass.
LimitName == << "l", "i", "m", "i", "t" >>

OrderByName == << "o", "r", "d", "e", "r", "B", "y" >>

ItemChoices ==
    { [k |-> LimitName, v |-> PyInt(1)],
      [k |-> OrderByName, v |-> PyStr(<< "a", " ", "b" >>)] }

\* Values that read like another value once in the query string, or nearly so:
\* the str "1" beside the int 1, and "a+b" beside "a b".
TypedItems ==
    { [k |-> LimitName, v |-> PyStr(<< "1" >>)],
      [k |-> OrderByName, v |-> PyStr(<< "a", "+", "b" >>)] }

\* The one-item mappings over all those values, and the empty mapping.
TypedChoices == { << >> } \cup { << it >> : it \in ItemChoices \cup TypedItems }

\* The mappings a caller may pass: up to MaxParams items, keys distinct.
ParamChoices ==
    { d \in UNION { [1..n -> ItemChoices] : n \in 0..MaxParams } :
        \A i, j \in DOMAIN d : i # j => d[i].k # d[j].k }

Ids == { 1 }

\* JSON resource objects the API may return; the last lacks the required id.
Obj1 == [id |-> 1, name |-> "one"]

Obj2 == [id |-> 2, name |-> "two"]

ObjBad == [name |-> "no id"]

\* The structures that carry `results` (or fail to).
Payloads ==
    { [results |-> << Obj1 >>],
      [results |-> << Obj2, Obj1 >>],
      [results |-> << >>],
      [results |-> << Obj1, ObjBad >>],
      [total |-> 0] }

\* Decoded response bodies: the API's envelope around each payload, a payload
\* under `data` without `code`, a bare payload, and the error envelopes.
Bodies ==
    { [code |-> 200, status |-> "Ok", data |-> p] : p \in Payloads }
    \cup { [data |-> [results |-> << Obj1 >>]],
           [results |-> << Obj1 >>],
           [message |-> "bad key"],
           [message |-> "bad key", code |-> 200, status |-> "Ok",
            data |-> [results |-> << Obj1 >>]],
           [code |-> 404, status |-> "not found"],
           [code |-> 409] }

\* The answers drawn where the caller's dict is followed from call to call:
\* one success and one error envelope.
ReuseBodies ==
    { [code |-> 200, status |-> "Ok", data |-> [results |-> << Obj1 >>]],
      [message |-> "bad key"] }

StatusCodes == { 200, 404 }

Times == 1..MaxTime

\* The cache object handed to the Session: none, a working one, or one that
\* lacks `store` or `get`.
CacheKinds == { "none", "ok", "nostore", "noget" }

\* The public accessors modelled: [name, arity, resource, relation, type].
Seg(s) == PyStr(s)

Accessors ==
    { [name |-> "creator", arity |-> "one", relation |-> None, type |-> "Creator",
       resource |-> << "c", "r", "e", "a", "t", "o", "r", "s" >>],
      [name |-> "creators_list", arity |-> "list", relation |-> None, type |-> "Creator",
       resource |-> << "c", "r", "e", "a", "t", "o", "r", "s" >>] }

\* The resource names the endpoints are built from.
Comics == << "c", "o", "m", "i", "c", "s" >>

Series == << "s", "e", "r", "i", "e", "s" >>

Creators == << "c", "r", "e", "a", "t", "o", "r", "s" >>

Characters == << "c", "h", "a", "r", "a", "c", "t", "e", "r", "s" >>

Stories == << "s", "t", "o", "r", "i", "e", "s" >>

Events == << "e", "v", "e", "n", "t", "s" >>

\* comic(_id), series(_id), ... : a singular accessor.
Singular(name, resource, type) ==
    [name |-> name, arity |-> "one", relation |-> None, type |-> type, resource |-> resource]

\* comic_characters(_id, params), ... : a relation accessor.
Related(name, resource, relation, type) ==
    [name |-> name, arity |-> "relation", relation |-> Some(relation), type |-> type,
     resource |-> resource]

\* comics_list(params), ... : a list accessor.
Listing(name, resource, type) ==
    [name |-> name, arity |-> "list", relation |-> None, type |-> type, resource |-> resource]

\* Every public method of Session, in the order of the source.
AccessorTable ==
    { Singular("comic", Comics, "Comic"),
      Related("comic_characters", Comics, Characters, "Character"),
      Related("comic_creators", Comics, Creators, "Creator"),
      Related("comic_events", Comics, Events, "Event"),
      Related("comic_stories", Comics, Stories, "Story"),
      Listing("comics_list", Comics, "Comic"),
      Singular("series", Series, "Series"),
      Related("series_characters", Series, Characters, "Character"),
      Related("series_comics", Series, Comics, "Comic"),
      Related("series_creators", Series, Creators, "Creator"),
      Related("series_events", Series, Events, "Event"),
      Related("series_stories", Series, Stories, "Story"),
      Listing("series_list", Series, "Series"),
      Singular("creator", Creators, "Creator"),
      Related("creator_comics", Creators, Comics, "Comic"),
      Related("creator_events", Creators, Events, "Event"),
      Related("creator_series", Creators, Series, "Series"),
      Related("creator_stories", Creators, Stories, "Story"),
      Listing("creators_list", Creators, "Creator"),
      Singular("character", Characters, "Character"),
      Related("character_comics", Characters, Comics, "Comic"),
      Related("character_events", Characters, Events, "Event"),
      Related("character_series", Characters, Series, "Series"),
      Related("character_stories", Characters, Stories, "Story"),
      Listing("characters_list", Characters, "Character"),
      Singular("story", Stories, "Story"),
      Related("story_characters", Stories, Characters, "Character"),
      Related("story_comics", Stories, Comics, "Comic"),
      Related("story_creators", Stories, Creators, "Creator"),
      Related("story_events", Stories, Events, "Event"),
      Related("story_series", Stories, Series, "Series"),
      Listing("stories_list", Stories, "Story"),
      Singular("event", Events, "Event"),
      Related("event_characters", Events, Characters, "Character"),
      Related("event_comics", Events, Comics, "Comic"),
      Related("event_creators", Events, Creators, "Creator"),
      Related("event_series", Events, Series, "Series"),
      Related("event_stories", Events, Stories, "Story"),
      Listing("events_list", Events, "Event") }

\* An endpoint that leaves the relation name out.
EndpointWithoutRelation(acc, id) ==
    IF acc.arity = "list" THEN << Seg(acc.resource) >>
    ELSE << Seg(acc.resource), PyInt(id) >>

\* The endpoint each accessor passes to _call.
EndpointOf(acc, id) ==
    IF acc.arity = "one" THEN << Seg(acc.resource), PyInt(id) >>
    ELSE IF acc.arity = "relation"
         THEN << Seg(acc.resource), PyInt(id), Seg(acc.relation[1]) >>
    ELSE << Seg(acc.resource) >>

\* An entry left in a persistent cache by an earlier run.
StoredUrl == FormatUrl(EndpointOf(CHOOSE a \in Accessors : a.name = "creator", 1))

Prepopulated == StoredUrl :> [results |-> << Obj1 >>]

EmptyCache == [k \in {} |-> None]

\* ---------------------------------------------------------------- state
VARIABLES
    cacheKind,        \* which cache object the Session holds (self.cache)
    cache,            \* the cache's contents: key -> stored structure
    calls,            \* accessor calls made so far
    pc,               \* position of the running call
    accessor,         \* Some(accessor) while a call runs
    endpoint,         \* the endpoint list passed to _call
    params,           \* the params dict object of the call (mutated by signing)
    callerParams,     \* params as it was when the call began
    url,
    cache_key,
    cached_response,
    response,         \* Some([status_code, body]) once requests.get returned
    data,             \* Some(structure) : the local `data` of _call
    results,          \* Some(list) once _call has returned
    outcome,          \* Some(what the accessor returned or raised)
    nGet,             \* cache.get invocations in this call
    nSign,            \* _update_params invocations in this call
    nTransport,       \* requests.get invocations in this call
    nStore,           \* cache.store invocations in this call
    cacheAtCall,      \* the cache contents when the call began
    served,           \* network calls that got status 200 and passed classification
    log,              \* what the running call passed to its collaborators, and when
    held,             \* Some(mapping) : a params dict the caller passed and still holds
    twin              \* a Session with another private key, given the same calls

frame ==
    << accessor, endpoint, params, callerParams, url, cache_key, cached_response,
       response, data, results, outcome >>

counters == << nGet, nSign, nTransport, nStore >>

vars ==
    << cacheKind, cache, calls, pc, frame, counters, cacheAtCall, served, log, held,
       twin >>

\* The log of a call that has done nothing yet: the accessor's _id, the
\* now_string of _update_params, the params given to requests.get, the key
\* given to cache.get, the key and value given to cache.store, and the steps
\* of _call in the order they ran.
NoLog ==
    [arg |-> None, now_string |-> None, sent |-> None, got |-> None, stored |-> None,
     steps |-> << >>]

Step(name) == [log EXCEPT !.steps = Append(@, name)]

\* The second Session between calls: the params of its running _call, the
\* cache key it derived, the params it gave to requests.get, and the dict
\* its caller still holds.
NoTwin == [params |-> << >>, cache_key |-> "", sent |-> None, held |-> None]

\* ------------------------------------------------- the cache collaborator
\* cache.get(key): the stored structure, or None.
CacheGet(c, key) == IF key \in DOMAIN c THEN Some(c[key]) ELSE None

\* cache.store(key, value)
CacheStore(c, key, value) == [k \in DOMAIN c \cup { key } |-> IF k = key THEN value ELSE c[k]]

\* ------------------------------------------------------------ validation
\* TypeAdapter(T).validate_python(obj): a record of type T, or a ValidationError.
Validates(obj) == "id" \in DOMAIN obj

Validated(type, obj) == [type |-> type, id |-> obj.id]

\* ------------------------------------------------------------ exceptions
Exception(kind, msg, from) ==
    [kind |-> kind, msg |-> msg, value |-> << >>, from |-> from]

Returned(value) == [kind |-> "return", msg |-> None, value |-> value, from |-> "accessor"]

\* Every accessor's handler: `except ValidationError as err: raise ApiError(err)`;
\* any other exception leaves the accessor as it is.
ThroughAccessor(exc) ==
    IF exc.kind = "ValidationError" THEN [exc EXCEPT !.kind = "ApiError"] ELSE exc

\* An exception raised at this step ends the call.
Raise(kind, msg, from) ==
    /\ outcome' = Some(ThroughAccessor(Exception(kind, msg, from)))
    /\ pc' = "done"

\* ----------------------------------------------------------------- Init
Init ==
    /\ cacheKind \in CacheKinds
    /\ cache \in (IF cacheKind = "nostore" THEN { EmptyCache, Prepopulated } ELSE { EmptyCache })
    /\ calls = 0
    /\ pc = "idle"
    /\ accessor = None
    /\ endpoint = << >>
    /\ params = << >>
    /\ callerParams = << >>
    /\ url = ""
    /\ cache_key = ""
    /\ cached_response = None
    /\ response = None
    /\ data = None
    /\ results = None
    /\ outcome = None
    /\ nGet = 0
    /\ nSign = 0
    /\ nTransport = 0
    /\ nStore = 0
    /\ cacheAtCall = EmptyCache
    /\ served = {}
    /\ log = NoLog
    /\ held = None
    /\ twin = NoTwin

\* -------------------------------------------------------------- actions
\* _call, lines 145-150, entered with `endpoint` and `p` (None becomes {});
\* the second Session's _call is entered with the same endpoint and `tp`.
EnterCall(acc, arg, ep, p, tp) ==
    /\ pc = "idle"
    /\ calls < MaxCalls
    /\ calls' = calls + 1
    /\ accessor' = Some(acc)
    /\ endpoint' = ep
    /\ params' = p
    /\ callerParams' = p
    /\ url' = FormatUrl(ep)
    /\ cache_key' = CacheKey(ep, p)
    /\ cached_response' = None
    /\ response' = None
    /\ data' = None
    /\ results' = None
    /\ outcome' = None
    /\ nGet' = 0
    /\ nSign' = 0
    /\ nTransport' = 0
    /\ nStore' = 0
    /\ cacheAtCall' = cache
    /\ log' = [NoLog EXCEPT !.arg = arg, !.steps = << "_create_cached_params" >>]
    /\ pc' = "lookup"
    /\ twin' = [twin EXCEPT !.params = tp, !.cache_key = CacheKey(ep, tp), !.sent = None]
    /\ UNCHANGED << cacheKind, cache, served, held >>

\* comic(_id), creator(_id), ... : self._call([resource, _id])
InvokeSingular(acc, id) ==
    /\ acc.arity = "one"
    /\ EnterCall(acc, Some(id), EndpointOf(acc, id), << >>, << >>)

\* creators_list(params), ... : self._call([resource], params)
InvokeList(acc, p) ==
    /\ acc.arity = "list"
    /\ EnterCall(acc, None, EndpointOf(acc, 0), p, p)

\* comic_characters(_id, params), ... : self._call([resource, _id, relation], params)
InvokeRelation(acc, id, p) ==
    /\ acc.arity = "relation"
    /\ EnterCall(acc, Some(id), EndpointOf(acc, id), p, p)

\* A Session that takes any cache attribute, None included, for a cache.
AlwaysConfigured(kind) == TRUE

\* `if self.cache:` in _get_results_from_cache and _save_results_to_cache
CacheConfigured(kind) == kind # "none"

\* Whether the cache object has the attribute.
HasGet(kind) == kind \in { "ok", "nostore" }

HasStore(kind) == kind \in { "ok", "noget" }

MissingAttribute == Some("Cache object passed in is missing attribute")

\* The AttributeError of a missing `get`, left unwrapped.
LookupFaultUnwrapped == "AttributeError"

\* _get_results_from_cache lines 111-112: `except AttributeError` raises CacheError
LookupFault == "CacheError"

\* The AttributeError of a missing `store`, left unwrapped.
StoreFaultUnwrapped == "AttributeError"

\* _save_results_to_cache lines 129-130: `except AttributeError` raises CacheError
StoreFault == "CacheError"

\* _call line 151: Session._get_results_from_cache(cache_key)
GetResultsFromCache ==
    /\ pc = "lookup"
    /\ IF ~CacheConfigured(cacheKind)
       THEN /\ cached_response' = None
            /\ pc' = "looked"
            /\ log' = Step("_get_results_from_cache")
            /\ UNCHANGED << nGet, outcome >>
       ELSE IF ~HasGet(cacheKind)
       THEN /\ Raise(LookupFault, MissingAttribute, "_call")
            /\ log' = Step("_get_results_from_cache")
            /\ UNCHANGED << nGet, cached_response >>
       ELSE /\ nGet' = nGet + 1
            /\ cached_response' = CacheGet(cache, cache_key)
            /\ pc' = "looked"
            /\ log' = [Step("_get_results_from_cache") EXCEPT !.got = Some(cache_key)]
            /\ UNCHANGED outcome
    /\ UNCHANGED << cacheKind, cache, calls, accessor, endpoint, params, callerParams,
                    url, cache_key, response, data, results, nSign, nTransport,
                    nStore, cacheAtCall, served, held, twin >>

\* A lookup whose answer is never taken as a hit.
NeverHit(cr) == FALSE

\* An entry without `results` taken as no entry at all.
HitOnlyWithResults(cr) == cr # None /\ "results" \in DOMAIN cr[1]

\* _call line 153: `if cached_response is not None`
IsHit(cr) == cr # None

\* _call line 154: return cached_response["results"]
ReturnCached ==
    /\ pc = "looked"
    /\ IsHit(cached_response)
    /\ IF "results" \in DOMAIN cached_response[1]
       THEN /\ results' = Some(cached_response[1].results)
            /\ pc' = "returned"
            /\ log' = Step("return")
            /\ UNCHANGED outcome
       ELSE /\ Raise("KeyError", Some("results"), "_call")
            /\ UNCHANGED << results, log >>
    /\ UNCHANGED << cacheKind, cache, calls, accessor, endpoint, params, callerParams,
                    url, cache_key, cached_response, response, data, counters,
                    cacheAtCall, served, held, twin >>

\* _call line 156: self._update_params(params), datetime.now() being t
SignRequest(t) ==
    /\ pc = "looked"
    /\ ~IsHit(cached_response)
    /\ params' = UpdateParams(params, t)
    /\ twin' = [twin EXCEPT !.params = TwinUpdateParams(@, t)]
    /\ nSign' = nSign + 1
    /\ log' = [Step("_update_params") EXCEPT !.now_string = Some(Strftime(t))]
    /\ pc' = "signed"
    /\ UNCHANGED << cacheKind, cache, calls, accessor, endpoint, callerParams, url,
                    cache_key, cached_response, response, data, results, outcome,
                    nGet, nTransport, nStore, cacheAtCall, served, held >>

\* A transport step that asks again when the status is not 200.
RequestsGetRetry(status_code, body) ==
    /\ pc = "signed"
    /\ response' = Some([status_code |-> status_code, body |-> body])
    /\ data' = Some(body)
    /\ nTransport' = nTransport + 1
    /\ log' = [Step("requests.get") EXCEPT !.sent = Some(params)]
    /\ twin' = [twin EXCEPT !.sent = Some(twin.params)]
    /\ pc' = IF status_code = 200 THEN "classify" ELSE "signed"
    /\ UNCHANGED << cacheKind, cache, calls, accessor, endpoint, params, callerParams,
                    url, cache_key, cached_response, results, outcome, nGet, nSign,
                    nStore, cacheAtCall, served, held >>

\* _call lines 157-159: requests.get(url, params, headers) answers with a
\* status code and a body; data = response.json()
RequestsGet(status_code, body) ==
    /\ pc = "signed"
    /\ response' = Some([status_code |-> status_code, body |-> body])
    /\ data' = Some(body)
    /\ nTransport' = nTransport + 1
    /\ log' = [Step("requests.get") EXCEPT !.sent = Some(params)]
    /\ twin' = [twin EXCEPT !.sent = Some(twin.params)]
    /\ pc' = "classify"
    /\ UNCHANGED << cacheKind, cache, calls, accessor, endpoint, params, callerParams,
                    url, cache_key, cached_response, results, outcome, nGet, nSign,
                    nStore, cacheAtCall, served, held >>

\* A `message` looked at only when the body carries no `data`.
MessageWithoutData(d) == "message" \in DOMAIN d /\ "data" \notin DOMAIN d

\* _call line 161: `"message" in data`
HasMessage(d) == "message" \in DOMAIN d

\* `data.get("code") != 200`: an absent code compared as None.
CodeWithoutDefault(d) == "code" \notin DOMAIN d \/ d.code # 200

\* _call line 163: `data.get("code", 200) != 200`
HasErrorCode(d) == (IF "code" \in DOMAIN d THEN d.code ELSE 200) # 200

\* _call line 164: data.get("status")
StatusOf(d) == IF "status" \in DOMAIN d THEN Some(d.status) ELSE None

\* The body kept as it came, envelope and all.
NoUnwrap(d) == d

\* _call lines 165-166: `if "data" in data: data = data["data"]`
Unwrap(d) == IF "data" \in DOMAIN d THEN d.data ELSE d

\* _call lines 161-166
Classify ==
    /\ pc = "classify"
    /\ log' = Step("classify")
    /\ IF HasMessage(data[1])
       THEN /\ Raise("ApiError", Some(data[1].message), "_call")
            /\ UNCHANGED data
       ELSE IF HasErrorCode(data[1])
       THEN /\ Raise("ApiError", StatusOf(data[1]), "_call")
            /\ UNCHANGED data
       ELSE /\ data' = Some(Unwrap(data[1]))
            /\ pc' = "save"
            /\ UNCHANGED outcome
    /\ UNCHANGED << cacheKind, cache, calls, accessor, endpoint, params, callerParams,
                    url, cache_key, cached_response, response, results, counters,
                    cacheAtCall, served, held, twin >>

\* A store made whatever the HTTP status was.
AlwaysStore(status_code) == TRUE

\* _call line 168: `if response.status_code == 200`
ShouldStore(status_code) == status_code = 200

\* A key rebuilt at the store from the params as they are by then.
StoreKeyRebuilt(key, ep, signed) == CacheKey(ep, signed)

\* The key _call passes to _save_results_to_cache.
StoreKey(key, ep, signed) == key

\* The record of a call that fetched from the network and stored the answer.
Serving ==
    [endpoint |-> endpoint, items |-> Items(callerParams), results |-> results,
     key |-> cache_key]

\* _call lines 168-169: Session._save_results_to_cache(cache_key, data)
SaveResults ==
    /\ pc = "save"
    /\ IF ~ShouldStore(response[1].status_code)
       THEN /\ pc' = "results"
            /\ UNCHANGED << cache, nStore, outcome, log >>
       ELSE IF ~CacheConfigured(cacheKind)
       THEN /\ pc' = "results"
            /\ log' = Step("_save_results_to_cache")
            /\ UNCHANGED << cache, nStore, outcome >>
       ELSE IF ~HasStore(cacheKind)
       THEN /\ Raise(StoreFault, MissingAttribute, "_call")
            /\ log' = Step("_save_results_to_cache")
            /\ UNCHANGED << cache, nStore >>
       ELSE /\ cache' = CacheStore(cache, StoreKey(cache_key, endpoint, params), data[1])
            /\ nStore' = nStore + 1
            /\ pc' = "results"
            /\ log' = [Step("_save_results_to_cache") EXCEPT
                          !.stored = Some([key |-> StoreKey(cache_key, endpoint, params),
                                           value |-> data[1]])]
            /\ UNCHANGED outcome
    /\ UNCHANGED << cacheKind, calls, accessor, endpoint, params, callerParams, url,
                    cache_key, cached_response, response, data, results, nGet, nSign,
                    nTransport, cacheAtCall, served, held, twin >>

\* _call line 171: return data["results"]
ReturnResults ==
    /\ pc = "results"
    /\ IF "results" \in DOMAIN data[1]
       THEN /\ results' = Some(data[1].results)
            /\ pc' = "returned"
            /\ log' = Step("return")
            /\ UNCHANGED outcome
       ELSE /\ Raise("KeyError", Some("results"), "_call")
            /\ UNCHANGED << results, log >>
    /\ UNCHANGED << cacheKind, cache, calls, accessor, endpoint, params, callerParams,
                    url, cache_key, cached_response, response, data, counters,
                    cacheAtCall, served, held, twin >>

\* The last element of the list taken in place of the first.
ElementLast(list) == list[Len(list)]

\* comic, creator, ... : the `[0]` of `self._call([resource, _id])[0]`
ElementZero(list) == list[1]

\* comic, creator, ... lines 186-190: `self._call(...)[0]`, then validation
FinishSingular ==
    /\ pc = "returned"
    /\ accessor[1].arity = "one"
    /\ IF results[1] = << >>
       THEN Raise("IndexError", Some("list index out of range"), "accessor")
       ELSE IF Validates(ElementZero(results[1]))
       THEN /\ outcome' =
                Some(Returned(<< Validated(accessor[1].type, ElementZero(results[1])) >>))
            /\ pc' = "done"
       ELSE Raise("ValidationError", Some("validation"), "accessor")
    /\ UNCHANGED << cacheKind, cache, calls, accessor, endpoint, params, callerParams,
                    url, cache_key, cached_response, response, data, results, counters,
                    cacheAtCall, served, log, held, twin >>

\* A list accessor that returns the records that validate and drops the rest.
FinishListPartial ==
    /\ pc = "returned"
    /\ accessor[1].arity # "one"
    /\ LET valid == SelectSeq(results[1], Validates)
       IN  outcome' =
               Some(Returned([i \in DOMAIN valid |-> Validated(accessor[1].type, valid[i])]))
    /\ pc' = "done"
    /\ UNCHANGED << cacheKind, cache, calls, accessor, endpoint, params, callerParams,
                    url, cache_key, cached_response, response, data, results, counters,
                    cacheAtCall, served, log, held, twin >>

\* creators_list, comic_characters, ... : validation of the whole list
FinishList ==
    /\ pc = "returned"
    /\ accessor[1].arity # "one"
    /\ IF \A i \in DOMAIN results[1] : Validates(results[1][i])
       THEN /\ outcome' =
                Some(Returned([i \in DOMAIN results[1] |->
                                 Validated(accessor[1].type, results[1][i])]))
            /\ pc' = "done"
       ELSE Raise("ValidationError", Some("validation"), "accessor")
    /\ UNCHANGED << cacheKind, cache, calls, accessor, endpoint, params, callerParams,
                    url, cache_key, cached_response, response, data, results, counters,
                    cacheAtCall, served, log, held, twin >>

\* The accessor has returned or raised: its frame is gone.
Unwind ==
    /\ pc = "done"
    /\ pc' = "idle"
    /\ accessor' = None
    /\ endpoint' = << >>
    /\ params' = << >>
    /\ callerParams' = << >>
    /\ url' = ""
    /\ cache_key' = ""
    /\ cached_response' = None
    /\ response' = None
    /\ data' = None
    /\ results' = None
    /\ outcome' = None
    /\ nGet' = 0
    /\ nSign' = 0
    /\ nTransport' = 0
    /\ nStore' = 0
    /\ cacheAtCall' = EmptyCache
    /\ served' = IF nStore > 0 THEN served \cup { Serving } ELSE served
    /\ log' = NoLog
    /\ UNCHANGED << cacheKind, cache, calls >>

\* The caller keeps no reference to the mapping it passed.
Leave ==
    /\ Unwind
    /\ twin' = [NoTwin EXCEPT !.held = twin.held]
    /\ UNCHANGED held

\* The caller keeps the dict it passed as params, as the call has left it.
LeaveHolding ==
    /\ Unwind
    /\ accessor[1].arity # "one"
    /\ held' = Some(params)
    /\ twin' = [NoTwin EXCEPT !.held = Some(twin.params)]

\* creators_list(params) called with the dict an earlier call was given.
InvokeAgain(acc) ==
    /\ acc.arity = "list"
    /\ held # None
    /\ EnterCall(acc, None, EndpointOf(acc, 0), held[1], twin.held[1])

Next ==
    \/ \E acc \in Accessors, id \in Ids : InvokeSingular(acc, id)
    \/ \E acc \in Accessors, p \in ParamChoices : InvokeList(acc, p)
    \/ GetResultsFromCache
    \/ ReturnCached
    \/ \E t \in Times : SignRequest(t)
    \/ \E status_code \in StatusCodes, body \in Bodies : RequestsGet(status_code, body)
    \/ Classify
    \/ SaveResults
    \/ ReturnResults
    \/ FinishSingular
    \/ FinishList
    \/ Leave

Spec == Init /\ [][Next]_vars

\* The whole accessor surface, on Sessions whose cache contents never change:
\* no cache, or a cache object that lacks `store` or `get`.
InitSurface == Init /\ ~(HasGet(cacheKind) /\ HasStore(cacheKind))

NextSurface ==
    \/ \E acc \in AccessorTable, id \in Ids : InvokeSingular(acc, id)
    \/ \E acc \in AccessorTable, id \in Ids, p \in ParamChoices : InvokeRelation(acc, id, p)
    \/ \E acc \in AccessorTable, p \in ParamChoices : InvokeList(acc, p)
    \/ GetResultsFromCache
    \/ ReturnCached
    \/ \E t \in Times : SignRequest(t)
    \/ \E status_code \in StatusCodes, body \in Bodies : RequestsGet(status_code, body)
    \/ Classify
    \/ SaveResults
    \/ ReturnResults
    \/ FinishSingular
    \/ FinishList
    \/ Leave

SpecSurface == InitSurface /\ [][NextSurface]_vars

\* Callers that pass one dict object to call after call.
NextReuse ==
    \/ \E acc \in Accessors, p \in ParamChoices : InvokeList(acc, p)
    \/ \E acc \in Accessors : InvokeAgain(acc)
    \/ GetResultsFromCache
    \/ ReturnCached
    \/ \E t \in Times : SignRequest(t)
    \/ \E status_code \in StatusCodes, body \in ReuseBodies : RequestsGet(status_code, body)
    \/ Classify
    \/ SaveResults
    \/ ReturnResults
    \/ FinishList
    \/ Leave
    \/ LeaveHolding

SpecReuse == Init /\ [][NextReuse]_vars

\* Callers whose param values differ in type or in a reserved character.
NextTyped ==
    \/ \E acc \in Accessors, id \in Ids : InvokeSingular(acc, id)
    \/ \E acc \in Accessors, p \in TypedChoices : InvokeList(acc, p)
    \/ GetResultsFromCache
    \/ ReturnCached
    \/ \E t \in Times : SignRequest(t)
    \/ \E status_code \in StatusCodes, body \in ReuseBodies : RequestsGet(status_code, body)
    \/ Classify
    \/ SaveResults
    \/ ReturnResults
    \/ FinishSingular
    \/ FinishList
    \/ Leave

SpecTyped == Init /\ [][NextTyped]_vars

\* ------------------------------------------------------------ properties
\* What the claims speak about, read off the state of the running call.
InCall == pc # "idle"

\* The body the transport returned in this call, once it has.
Answered == response # None

Body == response[1].body

StatusCode == response[1].status_code

\* The body carries neither a `message` nor a `code` other than 200.
SuccessShaped(b) ==
    /\ "message" \notin DOMAIN b
    /\ "code" \in DOMAIN b => b.code = 200

\* The accessor has finished by raising an exception of this kind.
Raised(kind) == pc = "done" /\ outcome[1].kind = kind

\* The positions a call passes through without touching the network.
OffNetwork == { "lookup", "looked", "returned", "done" }

\* The cache held an entry under the key of this call when the call began.
HeldEntry ==
    /\ InCall
    /\ HasGet(cacheKind)
    /\ CacheKey(endpoint, callerParams) \in DOMAIN cacheAtCall

\* C1. Cache hit short-circuit: when the cache holds an entry under the key of
\* (endpoint, caller params), the call returns that entry's `results` and
\* never invokes the transport, never signs and never stores.
CacheHitShortCircuit ==
    HeldEntry =>
        LET entry == cacheAtCall[CacheKey(endpoint, callerParams)]
        IN  /\ pc \in OffNetwork
            /\ nTransport = 0
            /\ nSign = 0
            /\ nStore = 0
            /\ params = callerParams
            /\ cache = cacheAtCall
            /\ ("results" \in DOMAIN entry /\ pc \in { "returned", "done" })
                   => results = Some(entry.results)

CacheHitServed ==
    /\ HeldEntry
    /\ pc = "returned"
    /\ nGet = 1
    /\ results = Some(<< Obj1 >>)

\* A served request with the endpoint and the params of this call.
SameRequest(s) == s.endpoint = endpoint /\ s.items = Items(callerParams)

\* C2. Cache population: with a working cache, once a call for (endpoint,
\* params) fetched with status 200 and a body classified as success, every
\* later call with the same endpoint and equal params returns the same
\* `results` without invoking the transport.
CachePopulationAvoidsRefetch ==
    (cacheKind = "ok" /\ InCall) =>
        \A s \in served :
            SameRequest(s) =>
                /\ pc \in OffNetwork
                /\ nTransport = 0
                /\ (s.results # None /\ pc \in { "returned", "done" })
                       => results = s.results

RefetchAvoided ==
    /\ cacheKind = "ok"
    /\ pc = "returned"
    /\ Len(callerParams) = 2
    /\ \E s \in served : SameRequest(s) /\ s.results # None /\ results = s.results

\* The insertion orders of a mapping, and the one ascending by name.
Orderings(d) ==
    { q \in [DOMAIN d -> Items(d)] : \A i, j \in DOMAIN q : i # j => q[i] # q[j] }

Ascending(d) ==
    CHOOSE q \in Orderings(d) :
        \A i, j \in DOMAIN q : i < j => StrLess(q[i].k, q[j].k)

\* C3. Cache-key determinism: mappings equal as sets of items give the same
\* key whatever their insertion order; the key is the URL, then "?" and the
\* items in ascending order of name, and just the URL for an empty mapping.
CacheKeyDeterminism ==
    InCall =>
        /\ \A q \in Orderings(callerParams) : CacheKey(endpoint, q) = cache_key
        /\ cache_key =
               (IF callerParams = << >> THEN url
                ELSE url \o "?" \o Flat(UrlEncode(Ascending(callerParams))))

UnorderedParamsKeyed ==
    /\ pc = "lookup"
    /\ Len(callerParams) = 2
    /\ callerParams[1].k = OrderByName
    /\ cache_key = "http://gateway.marvel.com:80/v1/public/creators?limit=1&orderBy=a+b"

\* C4. Cache key omits auth fields: for params without caller-supplied hash,
\* apikey or ts, the key built from the mapping after signing equals the key
\* built before signing.
CacheKeyOmitsAuthFields ==
    (pc = "signed" /\ Keys(callerParams) \cap AuthNames = {}) =>
        CacheKey(endpoint, params) = CacheKey(endpoint, callerParams)

\* C5. Error classification precedence: a body with a `message` field makes the
\* call fail with ApiError carrying that message, whatever the HTTP status and
\* the other fields, and nothing is stored.
MessageMeansApiError ==
    (Answered /\ "message" \in DOMAIN Body) =>
        /\ pc \in { "classify", "done" }
        /\ nStore = 0
        /\ cache = cacheAtCall
        /\ results = None
        /\ pc = "done" =>
               /\ outcome[1].kind = "ApiError"
               /\ outcome[1].msg = Some(Body.message)

MessageWithOkStatusRaised ==
    /\ Answered
    /\ StatusCode = 200
    /\ { "message", "code", "data" } \subseteq DOMAIN Body
    /\ Raised("ApiError")
    /\ outcome[1].msg = Some("bad key")

\* C6. Non-200 code envelope: a body without `message` whose `code` is not 200
\* makes the call fail with ApiError carrying the body's `status`, returns no
\* record and stores nothing; a body whose `code` is 200 or absent is not
\* failed by this rule.
CodeEnvelope ==
    (Answered /\ "message" \notin DOMAIN Body) =>
        IF "code" \in DOMAIN Body /\ Body.code # 200
        THEN /\ pc \in { "classify", "done" }
             /\ nStore = 0
             /\ cache = cacheAtCall
             /\ results = None
             /\ pc = "done" =>
                    /\ outcome[1].kind = "ApiError"
                    /\ outcome[1].from = "_call"
                    /\ outcome[1].msg =
                           (IF "status" \in DOMAIN Body THEN Some(Body.status) ELSE None)
        ELSE pc = "done" => ~(outcome[1].kind = "ApiError" /\ outcome[1].from = "_call")

CodeEnvelopeRaised ==
    /\ Answered
    /\ Body = [code |-> 404, status |-> "not found"]
    /\ Raised("ApiError")
    /\ outcome[1].msg = Some("not found")

\* The structure whose `results` the call reads has none.
LacksResults ==
    \/ cached_response # None /\ "results" \notin DOMAIN cached_response[1]
    \/ /\ cached_response = None
       /\ Answered
       /\ SuccessShaped(Body)
       /\ "results" \notin DOMAIN (IF "data" \in DOMAIN Body THEN Body.data ELSE Body)

\* C7. Absent results: when the (possibly unwrapped) response structure, or
\* the cached entry on a hit, has no `results` field, the call fails with
\* ApiError and with no other kind of error.
AbsentResultsIsApiError ==
    (pc = "done" /\ LacksResults /\ outcome[1].kind # "CacheError") =>
        outcome[1].kind = "ApiError"

\* C8. Empty results on singular fetch: a singular accessor whose pipeline
\* yields an empty `results` array raises ApiError.
EmptyResultsIsApiError ==
    (pc = "done" /\ accessor[1].arity = "one" /\ results = Some(<< >>)) =>
        outcome[1].kind = "ApiError"

\* C9. Non-200 HTTP status: whenever the transport returns a status other
\* than 200 the call fails with ApiError and returns no results payload
\* (stated here for the answers that carry `results`).
NonOkStatusIsApiError ==
    (pc = "done" /\ Answered /\ StatusCode # 200 /\ ~LacksResults) =>
        /\ outcome[1].kind = "ApiError"
        /\ results = None

\* A store-less cache, a miss, status 200 and a body not classified as an error.
ReachesCacheWrite ==
    /\ cacheKind = "nostore"
    /\ Answered
    /\ StatusCode = 200
    /\ SuccessShaped(Body)

\* C10. Malformed cache on write: with a cache that has `get` but no `store`,
\* a call that misses, gets status 200 and a body not classified as an error
\* raises CacheError and nothing else, and returns no results.
MissingStoreIsCacheError ==
    ReachesCacheWrite =>
        /\ pc \in { "classify", "save", "done" }
        /\ results = None
        /\ pc = "done" => outcome[1].kind = "CacheError"

MissingStoreRaised ==
    /\ ReachesCacheWrite
    /\ nTransport = 1
    /\ Raised("CacheError")
    /\ cache = cacheAtCall

\* C11. Malformed cache on lookup: with a cache object that lacks `get`, every
\* call fails with CacheError at the lookup step; the failure is never taken
\* as a miss, the transport is invoked zero times and the request is never
\* signed.
MissingGetIsCacheError ==
    (cacheKind = "noget" /\ InCall) =>
        /\ pc \in { "lookup", "done" }
        /\ nGet = 0
        /\ nSign = 0
        /\ nTransport = 0
        /\ nStore = 0
        /\ response = None
        /\ results = None
        /\ params = callerParams
        /\ cache = cacheAtCall
        /\ pc = "done" => (outcome[1].kind = "CacheError" /\ outcome[1].from = "_call")

MissingGetRaised ==
    /\ cacheKind = "noget"
    /\ Raised("CacheError")
    /\ Len(callerParams) = 2
    /\ nSign = 0
    /\ nTransport = 0

\* C12. Cache write only on the success path: cache.store is invoked in a call
\* only if the call missed the cache, the HTTP status was exactly 200 and the
\* body carried neither a `message` nor a `code` other than 200; in every other
\* call (a hit, a status other than 200, an error envelope) the cache contents
\* stay as they were.
CacheWriteOnlyOnSuccess ==
    InCall =>
        /\ nStore <= 1
        /\ nStore = 1 =>
               /\ cached_response = None
               /\ CacheKey(endpoint, callerParams) \notin DOMAIN cacheAtCall
               /\ Answered
               /\ StatusCode = 200
               /\ SuccessShaped(Body)
        /\ nStore = 0 => cache = cacheAtCall
        /\ (cached_response # None \/ (Answered /\ (StatusCode # 200 \/ ~SuccessShaped(Body))))
               => (nStore = 0 /\ cache = cacheAtCall)

CacheWritten ==
    /\ pc = "done"
    /\ nStore = 1
    /\ cache # cacheAtCall
    /\ cacheAtCall # EmptyCache
    /\ StatusCode = 200

\* C13. Data unwrap: a success body with a `data` field makes the call return
\* `data.results` and store the nested structure, not the outer envelope, so
\* that the `results` of the stored entry are the array returned; a success
\* body without `data` makes the call return the body's own `results` and
\* store the body itself.
DataUnwrap ==
    (Answered /\ SuccessShaped(Body)) =>
        /\ "data" \in DOMAIN Body =>
               /\ pc = "returned" => results = Some(Body.data.results)
               /\ results # None => results = Some(Body.data.results)
               /\ nStore = 1 =>
                      /\ cache[cache_key] = Body.data
                      /\ results # None => cache[cache_key].results = results[1]
        /\ "data" \notin DOMAIN Body =>
               /\ pc = "returned" => results = Some(Body.results)
               /\ results # None => results = Some(Body.results)
               /\ nStore = 1 => cache[cache_key] = Body

UnwrappedStored ==
    /\ pc = "returned"
    /\ nStore = 1
    /\ "data" \in DOMAIN Body
    /\ "code" \in DOMAIN Body
    /\ cache[cache_key] = Body.data
    /\ results = Some(<< Obj2, Obj1 >>)

\* The value a mapping holds under a name, and how often the name occurs.
ValueAt(d, k) == d[CHOOSE i \in DOMAIN d : d[i].k = k].v

Occurrences(d, k) == Cardinality({ i \in DOMAIN d : d[i].k = k })

\* C14. Request signing: the params given to requests.get contain `ts` equal to
\* the timestamp string taken (once) in that call, `apikey` equal to the public
\* key and `hash` equal to the digest of timestamp string, private key and
\* public key concatenated in that order; the timestamp hashed is the one sent.
RequestSigning ==
    log.sent # None =>
        /\ nSign = 1
        /\ log.now_string # None
        /\ LET sent == log.sent[1]
               now_string == log.now_string[1]
           IN  /\ \A name \in AuthNames : Occurrences(sent, name) = 1
               /\ ValueAt(sent, TsName) = PyStr(now_string)
               /\ ValueAt(sent, ApikeyName) = PyStr(PublicKey)
               /\ ValueAt(sent, HashName) = PyStr(Md5Hex(now_string \o PrivateKey \o PublicKey))
               /\ \A i \in DOMAIN callerParams :
                      callerParams[i].k \notin AuthNames => sent[i] = callerParams[i]

SignedRequestSent ==
    /\ log.sent # None
    /\ log.now_string = Some(Strftime(MaxTime))
    /\ Len(callerParams) = 2
    /\ Len(log.sent[1]) = 5
    /\ ValueAt(log.sent[1], TsName) = PyStr(Strftime(MaxTime))

\* The call found (or will find) an entry, or has a cache it cannot look up.
StaysOffNetwork == HeldEntry \/ cacheKind = "noget"

\* C16. At most one network request per public call: an accessor invocation
\* invokes the transport at most once (not at all on a cache hit or a failed
\* lookup, once otherwise) and then ends with a result or an error, without a
\* retry.
AtMostOneRequest ==
    InCall =>
        /\ nTransport <= 1
        /\ StaysOffNetwork => nTransport = 0
        /\ pc = "done" =>
               /\ outcome # None
               /\ nTransport = (IF StaysOffNetwork THEN 0 ELSE 1)
        /\ (Answered /\ pc # "classify") =>
               \/ pc \in { "save", "results", "returned" }
               \/ pc = "done"

FailedWithoutRetry ==
    /\ Raised("ApiError")
    /\ StatusCode = 404
    /\ nTransport = 1
    /\ calls = MaxCalls

\* The steps of a call that misses, in the order of _call's lines 148--171.
Pipeline ==
    << "_create_cached_params", "_get_results_from_cache", "_update_params",
       "requests.get", "classify", "_save_results_to_cache", "return" >>

\* The same without the save, which a status other than 200 skips.
PipelineUnsaved == SelectSeq(Pipeline, LAMBDA step : step # "_save_results_to_cache")

Range(s) == { s[i] : i \in DOMAIN s }

IsPrefix(s, t) == Len(s) <= Len(t) /\ \A i \in DOMAIN s : s[i] = t[i]

\* C20. Pipeline ordering within one cache-miss call: the key is computed from
\* the params as passed, then comes the lookup, then signing mutates params,
\* then the GET, then classification, then the store, then the return; the key
\* given to cache.store is the string given to cache.get in that call, which
\* the signing did not touch.
PipelineOrdering ==
    (InCall /\ ~IsHit(cached_response)) =>
        /\ cache_key = CacheKey(endpoint, callerParams)
        /\ IF Answered /\ StatusCode # 200
           THEN IsPrefix(log.steps, PipelineUnsaved)
           ELSE IsPrefix(log.steps, Pipeline)
        /\ params # callerParams => "_update_params" \in Range(log.steps)
        /\ log.got # None => log.got[1] = CacheKey(endpoint, callerParams)
        /\ log.stored # None =>
               /\ log.got # None
               /\ log.stored[1].key = log.got[1]
               /\ log.stored[1].key \in DOMAIN cache

MissRanInOrder ==
    /\ pc = "returned"
    /\ log.steps = Pipeline
    /\ Len(callerParams) = 2
    /\ log.stored # None
    /\ log.stored[1].key = log.got[1]
    /\ CacheKey(endpoint, params) # log.got[1]

\* The accessor running, and how a finished call ended.
Running == accessor[1]

ReturnedRecords == pc = "done" /\ outcome[1].kind = "return"

TimesRun(step) == Cardinality({ i \in DOMAIN log.steps : log.steps[i] = step })

\* C17. Singular fetch: a singular accessor calls the pipeline exactly once,
\* with the endpoint [resource name, id] and no caller params, takes element
\* 0 of the returned array and returns the validated record made from that
\* element; when element 0 carries the requested id, so does the record.
SingularFetch ==
    (InCall /\ Running.arity = "one") =>
        /\ log.arg # None
        /\ endpoint = << PyStr(Running.resource), PyInt(log.arg[1]) >>
        /\ callerParams = << >>
        /\ TimesRun("_create_cached_params") = 1
        /\ ReturnedRecords =>
               /\ results # None
               /\ results[1] # << >>
               /\ outcome[1].value = << [type |-> Running.type, id |-> results[1][1].id] >>
               /\ results[1][1].id = log.arg[1] => outcome[1].value[1].id = log.arg[1]
        /\ (pc = "done" /\ results # None /\ results[1] # << >>
                /\ "id" \in DOMAIN results[1][1]) => ReturnedRecords

SingularFetched ==
    /\ ReturnedRecords
    /\ Running.name = "series"
    /\ results = Some(<< Obj1, ObjBad >>)
    /\ outcome[1].value[1].id = log.arg[1]

Resources == { Comics, Series, Creators, Characters, Stories, Events }

TypeOfResource(r) ==
    CASE r = Comics -> "Comic"
      [] r = Series -> "Series"
      [] r = Creators -> "Creator"
      [] r = Characters -> "Character"
      [] r = Stories -> "Story"
      [] r = Events -> "Event"

Of(resource, arity) == { a \in AccessorTable : a.resource = resource /\ a.arity = arity }

\* The endpoint the accessor's kind calls for.
EndpointTemplate ==
    CASE Running.arity = "one" -> << PyStr(Running.resource), PyInt(log.arg[1]) >>
      [] Running.arity = "relation" ->
             << PyStr(Running.resource), PyInt(log.arg[1]), PyStr(Running.relation[1]) >>
      [] Running.arity = "list" -> << PyStr(Running.resource) >>

\* Nothing but the endpoint and the record type tells two accessors apart.
NothingBespoke ==
    /\ Running \in AccessorTable
    /\ Running.resource \in Resources
    /\ endpoint = EndpointTemplate
    /\ url = FormatUrl(EndpointTemplate)
    /\ Running.arity # "one" <=> log.arg = None \/ Running.arity = "relation"
    /\ Running.arity = "one" => callerParams = << >>
    /\ Running.type = TypeOfResource(IF Running.arity = "relation"
                                     THEN Running.relation[1] ELSE Running.resource)
    /\ ReturnedRecords =>
           \A i \in DOMAIN outcome[1].value : outcome[1].value[i].type = Running.type

\* The original C19. The public accessors are exactly the 30 combinations of
\* 6 resources with {self, 4 relations, list}, each calling the pipeline with
\* the endpoint of its kind and nothing more.
SurfaceOfThirty ==
    InCall =>
        /\ Cardinality(AccessorTable) = 30
        /\ Cardinality(Of(Running.resource, "relation")) = 4
        /\ NothingBespoke

\* C19. Accessor surface: the public accessors are the 39 combinations of 6
\* resources with {self, each related resource, list} -- one singular and one
\* list accessor per resource, and one relation accessor per related resource:
\* 4 for comics, creators and characters, 5 for series, stories and events --
\* each calling the pipeline with the endpoint [resource, id], [resource, id,
\* relation] or [resource] and differing in nothing but endpoint and result type.
AccessorSurface ==
    InCall =>
        /\ Cardinality(AccessorTable) = 39
        /\ Cardinality({ a.name : a \in AccessorTable }) = 39
        /\ Cardinality(Of(Running.resource, "one")) = 1
        /\ Cardinality(Of(Running.resource, "list")) = 1
        /\ Cardinality(Of(Running.resource, "relation")) =
               (IF Running.resource \in { Comics, Creators, Characters } THEN 4 ELSE 5)
        /\ \A a, b \in Of(Running.resource, "relation") :
               /\ a.relation[1] \in Resources \ { Running.resource }
               /\ a.relation = b.relation => a = b
        /\ NothingBespoke

FifthRelationCalled ==
    /\ ReturnedRecords
    /\ Running.name = "story_series"
    /\ endpoint = << PyStr(Stories), PyInt(1), PyStr(Series) >>
    /\ Len(outcome[1].value) = 2
    /\ outcome[1].value[1].type = "Series"

\* Every request the transport got in this call was signed just before, once,
\* with the timestamp read in this call, whatever the mapping held on entry.
FreshlySigned ==
    log.sent # None =>
        /\ TimesRun("_update_params") = 1
        /\ TimesRun("requests.get") = 1
        /\ \E i, j \in DOMAIN log.steps :
               /\ i < j
               /\ log.steps[i] = "_update_params"
               /\ log.steps[j] = "requests.get"
        /\ log.now_string # None
        /\ log.now_string[1] \in { Strftime(t) : t \in Times }
        /\ ValueAt(log.sent[1], HashName) =
               PyStr(Md5Hex(log.now_string[1] \o PrivateKey \o PublicKey))
        /\ ValueAt(log.sent[1], TsName) = PyStr(log.now_string[1])

\* A key as it is built for a request that carries no signature.
Unsigned(key) ==
    \E acc \in Accessors, id \in Ids, p \in ParamChoices : key = CacheKey(EndpointOf(acc, id), p)

\* Neither the keys nor the entries of the cache carry a signature.
NoSignatureInCache ==
    \A key \in DOMAIN cache :
        /\ Unsigned(key)
        /\ "hash" \notin DOMAIN cache[key]

\* C15. Signature freshness: in any sequence of calls every transport
\* invocation is preceded in the same call by exactly one signature computation
\* using the current timestamp, a signature computed in one call is never
\* reused by a later network call, and no signature is stored in the cache.
SignatureFreshness ==
    /\ FreshlySigned
    /\ NoSignatureInCache

\* The items of a mapping other than hash, apikey and ts.
NonAuth(items) == { it \in items : it.k \notin AuthNames }

\* An earlier call that stored its answer asked for what this call asks for.
SameLogicalRequest(s) ==
    /\ s.endpoint = endpoint
    /\ NonAuth(s.items) = NonAuth(Items(callerParams))

\* C21. Same key across calls: any two calls on one Session with the same
\* endpoint and the same non-auth parameters derive the same cache key,
\* whatever the time of each call and whatever earlier calls did to the mapping
\* passed in, also when the second call is given the very mapping an earlier
\* cache-miss call was given.
SameKeyAcrossCalls ==
    InCall => \A s \in served : SameLogicalRequest(s) => s.key = cache_key

\* The call went past the lookup without an entry: it is neither a hit nor a
\* failed lookup, and it has ended or stands between signing and returning.
MissedAndWentOn ==
    /\ ~HeldEntry
    /\ cacheKind # "noget"
    /\ pc \in { "signed", "classify", "save", "results", "done" }

\* C22. Effect on the caller's params mapping: a call that misses the cache
\* adds exactly hash, apikey and ts to the mapping the caller passed,
\* overwriting values the caller had under those names, and leaves every other
\* entry as it was; a call that hits the cache or fails at the lookup leaves
\* the mapping entirely unchanged.
ParamsEffect ==
    InCall =>
        /\ (HeldEntry \/ cacheKind = "noget") => (nSign = 0 /\ params = callerParams)
        /\ nSign = 0 => params = callerParams
        /\ MissedAndWentOn => nSign = 1
        /\ nSign > 0 =>
               /\ Keys(params) = Keys(callerParams) \cup AuthNames
               /\ \A name \in Keys(params) : Occurrences(params, name) = 1
               /\ Len(params) = Len(callerParams) + Cardinality(AuthNames \ Keys(callerParams))
               /\ \A i \in DOMAIN callerParams :
                      callerParams[i].k \notin AuthNames => params[i] = callerParams[i]
               /\ ValueAt(params, ApikeyName) = PyStr(PublicKey)
               /\ ValueAt(params, TsName) = PyStr(log.now_string[1])
               /\ ValueAt(params, HashName) =
                      PyStr(Md5Hex(log.now_string[1] \o PrivateKey \o PublicKey))

OldSignatureOverwritten ==
    /\ pc = "done"
    /\ nSign = 1
    /\ HasKey(callerParams, OrderByName)
    /\ HasKey(callerParams, TsName)
    /\ ValueAt(callerParams, TsName) # ValueAt(params, TsName)
    /\ Len(params) = Len(callerParams)

\* C23. Failed calls leave the cache unchanged: whenever an accessor call ends
\* in an error (an error envelope, a payload that fails validation, absent
\* `results`, empty `results` on a singular fetch), the cache contents after
\* the call are those before it (stated here for the calls that end in
\* ApiError, the error the claim has them end in).
FailedCallsLeaveCache ==
    Raised("ApiError") => cache = cacheAtCall

\* C24. Cached entries are always servable: in every reachable state every
\* entry in the cache has a `results` field, so that a hit never fails when
\* `results` is taken from it.
EntriesServable ==
    \A key \in DOMAIN cache : "results" \in DOMAIN cache[key]

\* C25. The pipeline never overwrites a cache entry: cache.store(K, v) is
\* invoked only in a call whose lookup of the same key K found nothing, so
\* over any sequence of calls the value stored under a key stays what it was
\* when it was written.
NeverOverwrites ==
    /\ InCall =>
           /\ \A key \in DOMAIN cacheAtCall :
                  key \in DOMAIN cache /\ cache[key] = cacheAtCall[key]
           /\ log.stored # None =>
                  /\ log.got = Some(log.stored[1].key)
                  /\ cached_response = None
                  /\ log.stored[1].key \notin DOMAIN cacheAtCall
                  /\ cache[log.stored[1].key] = log.stored[1].value
    /\ \A s \in served :
           /\ s.key \in DOMAIN cache
           /\ s.results # None => cache[s.key].results = s.results[1]

SecondEntryWritten ==
    /\ pc = "done"
    /\ log.stored # None
    /\ Cardinality(DOMAIN cache) = 2
    /\ \E s \in served :
           /\ s.key # cache_key
           /\ s.results # None
           /\ cache[s.key].results = s.results[1]

\* A request as the query string shows it: every value rendered by str().
TextOfEndpoint(ep) == [i \in DOMAIN ep |-> Str(ep[i])]

TextOfItems(items) == { [k |-> it.k, v |-> Str(it.v)] : it \in items }

SameAsSent(s) ==
    /\ TextOfEndpoint(s.endpoint) = TextOfEndpoint(endpoint)
    /\ TextOfItems(s.items) = TextOfItems(Items(callerParams))

\* The original C26. Distinct requests never share a cache entry: two calls
\* whose endpoints differ or whose caller-supplied parameter sets differ derive
\* different keys, so a hit only returns the results of a call with the same
\* endpoint and the same parameters.
DistinctRequestsDistinctKeys ==
    InCall =>
        \A s \in served :
            (s.endpoint # endpoint \/ s.items # Items(callerParams)) => s.key # cache_key

\* C26. Requests that differ as sent never share a cache entry: two calls
\* whose endpoints differ, or whose caller-supplied parameter sets differ once
\* every value is rendered as text (str(value), as in the query string),
\* derive different keys, so a hit on an entry the Session stored only returns
\* the results of a call with the same endpoint and the same parameters as sent.
DistinctAsSentDistinctKeys ==
    InCall =>
        /\ \A s \in served : ~SameAsSent(s) => s.key # cache_key
        /\ (cacheKind = "ok" /\ cached_response # None) =>
               \E s \in served :
                   /\ SameAsSent(s)
                   /\ s.key = cache_key
                   /\ results # None => results = s.results

ToldApartByQuoting ==
    /\ pc = "done"
    /\ nStore = 1
    /\ callerParams = << [k |-> OrderByName, v |-> PyStr(<< "a", "+", "b" >>)] >>
    /\ \E s \in served :
           /\ s.endpoint = endpoint
           /\ s.items = { [k |-> OrderByName, v |-> PyStr(<< "a", " ", "b" >>)] }
           /\ s.key # cache_key

\* How a call of accessor acc ends once the API has answered with body b and
\* the cache has played no part in it.
AfterMiss(acc, b) ==
    IF "message" \in DOMAIN b
    THEN Exception("ApiError", Some(b.message), "_call")
    ELSE IF "code" \in DOMAIN b /\ b.code # 200
    THEN Exception("ApiError", IF "status" \in DOMAIN b THEN Some(b.status) ELSE None, "_call")
    ELSE LET inner == IF "data" \in DOMAIN b THEN b.data ELSE b
         IN  IF "results" \notin DOMAIN inner
             THEN Exception("KeyError", Some("results"), "_call")
             ELSE IF acc.arity = "one" /\ inner.results = << >>
             THEN Exception("IndexError", Some("list index out of range"), "accessor")
             ELSE LET wanted == IF acc.arity = "one"
                                THEN << inner.results[1] >> ELSE inner.results
                  IN  IF \A i \in DOMAIN wanted : "id" \in DOMAIN wanted[i]
                      THEN Returned([i \in DOMAIN wanted |->
                                       [type |-> acc.type, id |-> wanted[i].id]])
                      ELSE Exception("ApiError", Some("validation"), "accessor")

\* C27. No cache configured: a Session constructed without a cache performs no
\* cache lookup and no cache store in any call, never raises CacheError,
\* invokes the transport exactly once, and returns or fails exactly as a
\* cache-miss call with a working cache does for the same response.
NoCacheConfigured ==
    /\ (cacheKind = "none" /\ InCall) =>
           /\ nGet = 0
           /\ nStore = 0
           /\ log.got = None
           /\ log.stored = None
           /\ cache = EmptyCache
           /\ cached_response = None
           /\ nTransport <= 1
           /\ pc = "done" => (nTransport = 1 /\ outcome[1].kind # "CacheError")
    /\ (pc = "done" /\ nTransport = 1 /\ cacheKind \in { "none", "ok" }) =>
           outcome[1] = AfterMiss(Running, Body)

ServedWithoutCache ==
    /\ ReturnedRecords
    /\ cacheKind = "none"
    /\ nTransport = 1
    /\ StatusCode = 200
    /\ calls = MaxCalls
    /\ Len(outcome[1].value) = 2

\* Two mappings with the same names in the same order, and the same value
\* under every name but `hash`.
DiffersOnlyInHash(a, b) ==
    /\ Len(a) = Len(b)
    /\ \A i \in DOMAIN a :
           /\ a[i].k = b[i].k
           /\ a[i].k # HashName => a[i].v = b[i].v

\* C28. Private key confidentiality: the private key is never a value of the
\* params a call builds its cache key from or gives to requests.get, and what a
\* call stores is the response body and nothing of the Session; a second
\* Session that differs only in its private key, given the same calls at the
\* same instants, sends params that differ from this Session's in `hash` alone
\* and derives the same cache key.
PrivateKeyConfidential ==
    InCall =>
        /\ \A it \in Items(callerParams) \cup Items(params) : Str(it.v) # PrivateKey
        /\ log.sent # None => \A it \in Items(log.sent[1]) : Str(it.v) # PrivateKey
        /\ log.stored # None => log.stored[1].value \in { Body, Unwrap(Body) }
        /\ log.sent # None =>
               /\ twin.sent # None
               /\ DiffersOnlyInHash(log.sent[1], twin.sent[1])
        /\ twin.cache_key = cache_key
====
